---- MODULE Spec2Model ----
(***************************************************************************)
(* Email service: FastAPI submission endpoints (main.py), the Celery app   *)
(* and queue-depth reader (celery_app.py) and the two worker tasks         *)
(* (tasks.py).  The broker list "celery" is `queue`, the result backend is *)
(* `backend`; a key that is absent from the backend reads as PENDING, as   *)
(* celery's AsyncResult reports it.  Timestamps and log lines are left     *)
(* out; every other field the code writes is kept.                         *)
(***************************************************************************)
EXTENDS Integers, Sequences, FiniteSets, TLC

VARIABLES queue, msg, backend, nextId, worker, log, handler

vars == <<queue, msg, backend, nextId, worker, log, handler>>

(* ------------------------------ bounds --------------------------------- *)

\* Task identifiers minted by delay() in one behaviour.
MaxTasks == 2

\* Largest total handed to update_progress when it is exercised on its own.
MaxTotal == 4

(* ------------------------ configuration values ------------------------- *)

\* main.py:20-22 read these from the environment (defaults 50, 30, 100);
\* the model runs the deployment with small values, bulk below single.
MAX_QUEUE_LENGTH_SINGLE == 2
MAX_QUEUE_LENGTH_BULK == 1
MAX_BULK_EMAILS == 2

\* celery_app.py:15 (default 4): worker slots of the pool.
CELERY_WORKER_CONCURRENCY == 2

\* uvicorn runs the sync endpoints on a thread pool: requests in flight.
HTTP_THREADS == 2

TaskIds == 1..MaxTasks
Workers == 1..CELERY_WORKER_CONCURRENCY
Handlers == 1..HTTP_THREADS

(* ------------------------------ addresses ------------------------------ *)

\* Addresses are strings of characters, so that the "@" and "." tests are
\* computed on the text as the code computes them.
GoodAddr == <<"a", "@", "x", ".", "c">>
NoAtAddr == <<"b", "a", "d">>

Addrs == {GoodAddr, NoAtAddr}

Contains(s, ch) == \E k \in DOMAIN s : s[k] = ch

\* email.split("@")[-1]: the text after the last "@", the whole text
\* when there is none.
SplitLast(s) ==
    IF Contains(s, "@")
    THEN LET k == CHOOSE k \in DOMAIN s :
                     s[k] = "@" /\ \A j \in DOMAIN s : j > k => s[j] # "@"
         IN  SubSeq(s, k + 1, Len(s))
    ELSE s

\* A step-1 check that accepts every address.
SingleAddressUnchecked(e) == TRUE

\* tasks.py:56  `if "@" not in recipient_email: raise ValueError`
SingleAddressOk(e) == Contains(e, "@")

\* tasks.py:139 `"@" not in email or "." not in email.split("@")[-1]`
BulkAddressInvalid(e) == ~Contains(e, "@") \/ ~Contains(SplitLast(e), ".")

\* pydantic EmailStr (main.py:47, 53): a local part, one "@", a domain
\* with a period.
EmailStr(e) ==
    /\ Cardinality({k \in DOMAIN e : e[k] = "@"}) = 1
    /\ e[1] # "@"
    /\ Contains(SplitLast(e), ".")

Lists(n) == UNION {[1..k -> Addrs] : k \in 0..n}

(* ------------------------------ backend -------------------------------- *)

NoResult == [none |-> TRUE]
Absent == [status |-> "PENDING", result |-> NoResult]
NoMsg == [kind |-> "none"]
IdleWorker ==
    [pc |-> "idle", task |-> 0, kind |-> "none", emails |-> <<>>, i |-> 0,
     sent |-> <<>>, failed |-> <<>>]

\* An HTTP thread that is not inside an endpoint holds the response it sent
\* last: the status code and the keys of the body the claims read (0 where
\* the body has no such key).
Response(route, code, detail, tid, depth, count) ==
    [pc |-> "done", route |-> route, code |-> code, detail |-> detail,
     task_id |-> tid, queue_length |-> depth, recipient_count |-> count]

IdleHandler == Response("none", 0, "", 0, 0, 0)

\* The service as deployed: nothing queued or stored, every HTTP thread and
\* worker slot free.
Init ==
    /\ queue = <<>>
    /\ msg = [t \in TaskIds |-> NoMsg]
    /\ backend = [t \in TaskIds |-> Absent]
    /\ nextId = 1
    /\ worker = [w \in Workers |-> IdleWorker]
    /\ log = [t \in TaskIds |-> <<>>]
    /\ handler = [h \in Handlers |-> IdleHandler]

(* ------------------------- celery primitives --------------------------- *)

\* Task.update_state / the backend's store_result: one write of a task's
\* key, replacing what was there.
StoreResult(t, state, res) ==
    backend' = [backend EXCEPT ![t] = [status |-> state, result |-> res]]

Logged(t, evs) == log' = [log EXCEPT ![t] = log[t] \o evs]

\* Task.delay: mint an identifier and push the message on the broker list.
\* Nothing is written to the result backend.
delay(kind, emails) ==
    /\ nextId <= MaxTasks
    /\ msg' = [msg EXCEPT ![nextId] = [kind |-> kind, emails |-> emails]]
    /\ queue' = Append(queue, nextId)
    /\ nextId' = nextId + 1

\* A producer on the broker calls a registered task directly
\* (tasks.send_single_email / tasks.send_bulk_emails) with any arguments.
Publish ==
    /\ \/ \E e \in Addrs : delay("single", <<e>>)
       \/ \E l \in Lists(MAX_BULK_EMAILS) : delay("bulk", l)
    /\ UNCHANGED <<backend, worker, log, handler>>

\* The pool's slots are interchangeable: a message goes to the first free one.
FreeSlot(w) ==
    /\ worker[w].pc = "idle"
    /\ \A v \in Workers : v < w => worker[v].pc # "idle"

\* A slot that reads the oldest message and leaves it on the list.
PickupPeek(w) ==
    /\ FreeSlot(w)
    /\ queue # <<>>
    /\ LET t == Head(queue) IN
         /\ worker' = [worker EXCEPT ![w] =
                          [IdleWorker EXCEPT !.pc = "body", !.task = t,
                                             !.kind = msg[t].kind,
                                             !.emails = msg[t].emails]]
         /\ StoreResult(t, "STARTED", NoResult)
    /\ UNCHANGED <<queue, msg, nextId, log, handler>>

\* A free worker slot takes the oldest message off the list (acknowledged
\* on receipt, prefetch multiplier 1), keeps its arguments and, with
\* task_track_started, records STARTED.
Pickup(w) ==
    /\ FreeSlot(w)
    /\ queue # <<>>
    /\ LET t == Head(queue) IN
         /\ queue' = Tail(queue)
         /\ msg' = [msg EXCEPT ![t] = NoMsg]
         /\ worker' = [worker EXCEPT ![w] =
                          [IdleWorker EXCEPT !.pc = "body", !.task = t,
                                             !.kind = msg[t].kind,
                                             !.emails = msg[t].emails]]
         /\ StoreResult(t, "STARTED", NoResult)
    /\ UNCHANGED <<nextId, log, handler>>

\* The exception is stored as FAILURE but the body goes on running.
RaisedContinuing(w, t, evs, err) ==
    /\ StoreResult(t, "FAILURE", [exc |-> err])
    /\ Logged(t, evs)
    /\ worker' = worker

\* The task body raised: the exception is stored as FAILURE, the slot is free.
Raised(w, t, evs, err) ==
    /\ StoreResult(t, "FAILURE", [exc |-> err])
    /\ Logged(t, evs)
    /\ worker' = [worker EXCEPT ![w] = IdleWorker]

\* The task body returned: the value is stored as SUCCESS, the slot is free.
Returned(w, t, evs, retval) ==
    /\ StoreResult(t, "SUCCESS", retval)
    /\ Logged(t, evs)
    /\ worker' = [worker EXCEPT ![w] = IdleWorker]

(* --------------------------- send_single_email -------------------------- *)

\* State names with CONNECTING and SENDING exchanged.
StepStateSwapped(k) ==
    CASE k = 1 -> "PROCESSING"
      [] k = 2 -> "PROCESSING"
      [] k = 3 -> "SENDING"
      [] k = 4 -> "CONNECTING"
      [] k = 5 -> "FINALIZING"

StepState(k) ==
    CASE k = 1 -> "PROCESSING"
      [] k = 2 -> "PROCESSING"
      [] k = 3 -> "CONNECTING"
      [] k = 4 -> "SENDING"
      [] k = 5 -> "FINALIZING"

StepMeta(k) ==
    CASE k = 1 -> [status |-> "Validating email address", step |-> "1/5"]
      [] k = 2 -> [status |-> "Preparing email content", step |-> "2/5"]
      [] k = 3 -> [status |-> "Connecting to email server", step |-> "3/5"]
      [] k = 4 -> [status |-> "Sending email", step |-> "4/5"]
      [] k = 5 -> [status |-> "Verifying delivery", step |-> "5/5"]

WriteEv(k) == [ev |-> "write", step |-> k, state |-> StepState(k)]
WorkEv(k) == [ev |-> "work", step |-> k]

\* The transport is called as a function returning a truth value; the
\* stand-in of tasks.py:218-233 returns True, the branches of the callers
\* cover False and a raised error.
TransportOutcomes == {"ok", "fail", "raise"}

Interrupts == {"raise"}

\* What the work of step k can end in: the blocking waits can be
\* interrupted (the soft time limit of celery_app.py:41 raises inside the
\* task), step 1 checks the address, step 4 calls the transport.
WorkOutcomes(k, e) ==
    CASE k = 1 -> Interrupts \cup (IF SingleAddressOk(e) THEN {"ok"} ELSE {"invalid"})
      [] k = 4 -> TransportOutcomes
      [] OTHER -> {"ok"} \cup Interrupts

ErrorOf(k, out) ==
    CASE out = "invalid" -> "Invalid email address"
      [] out = "fail" -> "Unexpected email sending failure"
      [] out = "raise" /\ k = 4 -> "TransportError"
      [] OTHER -> "SoftTimeLimitExceeded"

\* tasks.py:91-99
SingleResult(t, e) ==
    [status |-> "COMPLETED", recipient |-> e, task_id |-> t,
     message |-> "Email sent successfully!", delivery_status |-> "confirmed"]

\* tasks.py:49-53: the body starts by publishing step 1.
SingleBegin(w) ==
    LET t == worker[w].task IN
    /\ worker[w].pc = "body"
    /\ worker[w].kind = "single"
    /\ StoreResult(t, StepState(1), StepMeta(1))
    /\ Logged(t, <<WriteEv(1)>>)
    /\ worker' = [worker EXCEPT ![w].pc = "single", ![w].i = 1]
    /\ UNCHANGED <<queue, msg, nextId, handler>>

\* The events of one advance, in the order the code performs them: the work
\* of step k, then the progress write of step k+1.
AdvanceEvents(k) == <<WorkEv(k), WriteEv(k + 1)>>

\* A body that calls the transport again when it reported failure or raised.
SingleAdvanceRetrying(w) ==
    LET t == worker[w].task
        k == worker[w].i
    IN
    /\ worker[w].pc = "single"
    /\ k \in 1..4
    /\ \E out \in WorkOutcomes(k, worker[w].emails[1]) :
         IF out = "ok"
         THEN /\ StoreResult(t, StepState(k + 1), StepMeta(k + 1))
              /\ Logged(t, AdvanceEvents(k))
              /\ worker' = [worker EXCEPT ![w].i = k + 1]
         ELSE IF k = 4
         THEN /\ Logged(t, <<WorkEv(k)>>)
              /\ UNCHANGED <<backend, worker>>
         ELSE Raised(w, t, <<WorkEv(k)>>, ErrorOf(k, out))
    /\ UNCHANGED <<queue, msg, nextId, handler>>

\* tasks.py:54-88: the work of step k (1..4), then the write of step k+1.
SingleAdvance(w) ==
    LET t == worker[w].task
        k == worker[w].i
    IN
    /\ worker[w].pc = "single"
    /\ k \in 1..4
    /\ \E out \in WorkOutcomes(k, worker[w].emails[1]) :
         IF out = "ok"
         THEN /\ StoreResult(t, StepState(k + 1), StepMeta(k + 1))
              /\ Logged(t, AdvanceEvents(k))
              /\ worker' = [worker EXCEPT ![w].i = k + 1]
         ELSE Raised(w, t, <<WorkEv(k)>>, ErrorOf(k, out))
    /\ UNCHANGED <<queue, msg, nextId, handler>>

\* tasks.py:89-102: the work of step 5 and the return of the result.
SingleFinish(w) ==
    LET t == worker[w].task IN
    /\ worker[w].pc = "single"
    /\ worker[w].i = 5
    /\ \E out \in WorkOutcomes(5, worker[w].emails[1]) :
         IF out = "ok"
         THEN Returned(w, t, <<WorkEv(5)>>, SingleResult(t, worker[w].emails[1]))
         ELSE Raised(w, t, <<WorkEv(5)>>, ErrorOf(5, out))
    /\ UNCHANGED <<queue, msg, nextId, handler>>


(* --------------------------- send_bulk_emails --------------------------- *)

\* tasks.py:29  int((current / total) * 100) if total > 0 else 0
Percent(current, total) ==
    IF total > 0 THEN (current * 100) \div total ELSE 0

\* A progress write with the counter and the total exchanged.
update_progressSwapped(t, current, total, text) ==
    StoreResult(t, "PROGRESS",
                [current |-> total, total |-> current,
                 progress |-> Percent(total, current), status |-> text])

\* tasks.py:28-39 EmailTask.update_progress: the state is always PROGRESS.
update_progress(t, current, total, text) ==
    StoreResult(t, "PROGRESS",
                [current |-> current, total |-> total,
                 progress |-> Percent(current, total), status |-> text])

ProgressEv(current, total) == [ev |-> "progress", current |-> current, total |-> total]
HandleEv(idx) == [ev |-> "handle", idx |-> idx]

SentEntry(e) == [email |-> e, status |-> "success"]
FailedEntry(e, why) == [email |-> e, reason |-> why]

\* What handling one recipient can end in (tasks.py:137-185): the address
\* is refused; the transport returns True or False, and the delay that
\* follows either passes or is interrupted by a raised error; the transport
\* raises.
RecipientOutcomes(e) ==
    IF BulkAddressInvalid(e)
    THEN {"invalid"}
    ELSE {"sent", "sent_raise", "unsent", "unsent_raise", "raise"}

\* tasks.py:137-185: the lists after one recipient was handled.  An error
\* raised anywhere inside the try, the delay of line 175 included, reaches
\* the handler of line 177, which appends to the failed list.
HandleRecipient(e, out, sent, failed) ==
    CASE out = "invalid" ->
           [sent |-> sent,
            failed |-> Append(failed, FailedEntry(e, "Invalid email format"))]
      [] out = "sent" ->
           [sent |-> Append(sent, SentEntry(e)), failed |-> failed]
      [] out = "sent_raise" ->
           [sent |-> Append(sent, SentEntry(e)),
            failed |-> Append(failed, FailedEntry(e, "SoftTimeLimitExceeded"))]
      [] out = "unsent" ->
           [sent |-> sent,
            failed |-> Append(failed, FailedEntry(e, "Unexpected sending failure"))]
      [] out = "unsent_raise" ->
           [sent |-> sent,
            failed |-> Append(Append(failed, FailedEntry(e, "Unexpected sending failure")),
                              FailedEntry(e, "SoftTimeLimitExceeded"))]
      [] out = "raise" ->
           [sent |-> sent, failed |-> Append(failed, FailedEntry(e, "TransportError"))]

\* tasks.py:188-190 and 199: len(sent)/total*100 printed with one decimal,
\* in tenths of a percent; 0.0 when total is 0.
SuccessRate(nsent, total) ==
    IF total > 0 THEN (2 * nsent * 1000 + total) \div (2 * total) ELSE 0

\* tasks.py:193-206
BulkResult(t, total, sent, failed) ==
    [status |-> "COMPLETED",
     summary |-> [total_emails |-> total, sent_count |-> Len(sent),
                  failed_count |-> Len(failed),
                  success_rate |-> SuccessRate(Len(sent), total)],
     sent_emails |-> sent, failed_emails |-> failed, task_id |-> t]

\* tasks.py:116-126: total, the (0, total) progress write, the empty lists.
\* A write that raises is outside the per-recipient try: the task fails.
BulkBegin(w) ==
    LET t == worker[w].task
        total == Len(worker[w].emails)
    IN
    /\ worker[w].pc = "body"
    /\ worker[w].kind = "bulk"
    /\ \/ /\ update_progress(t, 0, total, <<"Starting bulk email send">>)
          /\ Logged(t, <<ProgressEv(0, total)>>)
          /\ worker' = [worker EXCEPT ![w].pc = "bulk", ![w].i = 0]
       \/ Raised(w, t, <<>>, "BackendError")
    /\ UNCHANGED <<queue, msg, nextId, handler>>

\* A loop without the per-recipient try: an error raised by the transport
\* leaves the loop and fails the task.
BulkIterateAborting(w) ==
    LET t == worker[w].task
        total == Len(worker[w].emails)
        cur == worker[w].i + 1
    IN
    /\ worker[w].pc = "bulk"
    /\ worker[w].i < total
    /\ \/ \E out \in RecipientOutcomes(worker[w].emails[cur]) \ {"raise"} :
            LET after == HandleRecipient(worker[w].emails[cur], out,
                                         worker[w].sent, worker[w].failed)
            IN
            /\ update_progress(t, cur, total,
                               <<"Sending email", cur, total, worker[w].emails[cur]>>)
            /\ Logged(t, <<ProgressEv(cur, total), HandleEv(cur)>>)
            /\ worker' = [worker EXCEPT ![w].i = cur,
                                        ![w].sent = after.sent,
                                        ![w].failed = after.failed]
       \/ /\ "raise" \in RecipientOutcomes(worker[w].emails[cur])
          /\ Raised(w, t, <<ProgressEv(cur, total), HandleEv(cur)>>, "TransportError")
       \/ Raised(w, t, <<>>, "BackendError")
    /\ UNCHANGED <<queue, msg, nextId, handler>>

\* tasks.py:128-185: one iteration of the loop: the progress write for
\* recipient i+1, then the handling of that recipient.
BulkIterate(w) ==
    LET t == worker[w].task
        total == Len(worker[w].emails)
        cur == worker[w].i + 1
    IN
    /\ worker[w].pc = "bulk"
    /\ worker[w].i < total
    /\ \/ \E out \in RecipientOutcomes(worker[w].emails[cur]) :
            LET after == HandleRecipient(worker[w].emails[cur], out,
                                         worker[w].sent, worker[w].failed)
            IN
            /\ update_progress(t, cur, total,
                               <<"Sending email", cur, total, worker[w].emails[cur]>>)
            /\ Logged(t, <<ProgressEv(cur, total), HandleEv(cur)>>)
            /\ worker' = [worker EXCEPT ![w].i = cur,
                                        ![w].sent = after.sent,
                                        ![w].failed = after.failed]
       \/ Raised(w, t, <<>>, "BackendError")
    /\ UNCHANGED <<queue, msg, nextId, handler>>

\* A body that ends after the loop without its result being stored.
BulkFinishSilent(w) ==
    /\ worker[w].pc = "bulk"
    /\ worker[w].i = Len(worker[w].emails)
    /\ worker' = [worker EXCEPT ![w] = IdleWorker]
    /\ UNCHANGED <<queue, msg, nextId, handler, backend, log>>

\* tasks.py:187-211: after the loop the aggregate result is returned.
BulkFinish(w) ==
    LET t == worker[w].task
        total == Len(worker[w].emails)
    IN
    /\ worker[w].pc = "bulk"
    /\ worker[w].i = total
    /\ Returned(w, t, <<>>, BulkResult(t, total, worker[w].sent, worker[w].failed))
    /\ UNCHANGED <<queue, msg, nextId, handler>>

(* ------------------------------- expiry -------------------------------- *)

Terminal(t) == backend[t].status \in {"SUCCESS", "FAILURE"}

\* celery_app.py:28 result_expires: the backend drops a task's key once its
\* retention window has passed.  The window (3600 s) is longer than the task
\* time limit (300 s), so the key that expires holds a terminal record.
Expire(t) ==
    /\ Terminal(t)
    /\ backend' = [backend EXCEPT ![t] = Absent]
    /\ log' = [log EXCEPT ![t] = <<>>]
    /\ UNCHANGED <<queue, msg, nextId, worker, handler>>

(* ----------------------------- status query ----------------------------- *)

\* A projection that attaches the stored result to every finished task.
get_task_statusAnyReady(t) ==
    LET st == backend[t].status IN
    IF st = "PROGRESS"
    THEN [task_id |-> t, status |-> st, meta |-> backend[t].result]
    ELSE IF st = "SUCCESS"
    THEN [task_id |-> t, status |-> "COMPLETED", result |-> backend[t].result]
    ELSE IF st = "FAILURE"
    THEN [task_id |-> t, status |-> "FAILED", result |-> backend[t].result,
          error |-> backend[t].result.exc]
    ELSE [task_id |-> t, status |-> st]

\* A projection that passes the engine's own names of the terminal states.
get_task_statusRaw(t) ==
    LET st == backend[t].status IN
    IF st = "PROGRESS"
    THEN [task_id |-> t, status |-> st, meta |-> backend[t].result]
    ELSE IF st = "SUCCESS"
    THEN [task_id |-> t, status |-> st, result |-> backend[t].result]
    ELSE IF st = "FAILURE"
    THEN [task_id |-> t, status |-> st, error |-> backend[t].result.exc]
    ELSE [task_id |-> t, status |-> st]

\* main.py:195-216 get_task_status: the response body as the set of keys it
\* holds.  AsyncResult reads the backend; a key that is not there reads as
\* PENDING.  successful() is status SUCCESS, failed() is status FAILURE, and
\* the stored exception is never empty, so the error is its text.
get_task_status(t) ==
    LET st == backend[t].status IN
    IF st = "PROGRESS"
    THEN [task_id |-> t, status |-> st, meta |-> backend[t].result]
    ELSE IF st = "SUCCESS"
    THEN [task_id |-> t, status |-> "COMPLETED", result |-> backend[t].result]
    ELSE IF st = "FAILURE"
    THEN [task_id |-> t, status |-> "FAILED", error |-> backend[t].result.exc]
    ELSE [task_id |-> t, status |-> st]

Keys(response) == DOMAIN response

(* ---------------------------- HTTP endpoints ---------------------------- *)

\* A depth reader that reports a full queue when the query fails.
get_queue_lengthFailClosed(redis_ok) ==
    IF redis_ok THEN Len(queue) ELSE MAX_QUEUE_LENGTH_SINGLE

\* celery_app.py:48-56: LLEN of the broker list; any error reads as 0.
get_queue_length(redis_ok) == IF redis_ok THEN Len(queue) ELSE 0

\* Whether the LLEN call succeeds.
RedisOutcomes == BOOLEAN

\* main.py:86-96 get_queue_status: the depth and "healthy" below the single
\* threshold, "busy" from it on.
get_queue_status(redis_ok) ==
    LET queue_length == get_queue_length(redis_ok) IN
    [queue_length |-> queue_length,
     status |-> IF queue_length < MAX_QUEUE_LENGTH_SINGLE THEN "healthy" ELSE "busy"]

\* A threshold test that lets a queue exactly at the limit through.
QueueFullStrict(depth, limit) == depth > limit

\* main.py:105 and 157: `if current_queue_length >= MAX_QUEUE_LENGTH_...`
QueueFull(depth, limit) == depth >= limit

Threshold(route) ==
    IF route = "send-email" THEN MAX_QUEUE_LENGTH_SINGLE ELSE MAX_QUEUE_LENGTH_BULK

\* Size checks that forget the upper limit.
BulkSizeErrorEmptyOnly(n) == n = 0

\* main.py:143-153: the size checks of the bulk endpoint.
BulkSizeError(n) == n = 0 \/ n > MAX_BULK_EMAILS

SizeDetail(n) ==
    IF n = 0 THEN "Email list cannot be empty" ELSE "Cannot send more than MAX_BULK_EMAILS"

Checked(route, emails, redis_ok) ==
    [pc |-> "checked", route |-> route, emails |-> emails,
     depth |-> get_queue_length(redis_ok), redis_ok |-> redis_ok]

\* The bodies clients send: one address to /send-email, a list of up to one
\* more than the maximum to /send-bulk-emails.
Bodies(route) ==
    IF route = "send-email" THEN {<<e>> : e \in Addrs} ELSE Lists(MAX_BULK_EMAILS + 1)

WellFormed(l) == \A k \in DOMAIN l : EmailStr(l[k])

RefusedRoutes ==
    {route \in {"send-email", "send-bulk-emails"} : \E l \in Bodies(route) : ~WellFormed(l)}

AcceptedBodies(route) == {l \in Bodies(route) : WellFormed(l)}

\* The server's threads are interchangeable: a request runs on the first
\* one that is not inside an endpoint.
FreeThread(h) ==
    /\ handler[h].pc = "done"
    /\ \A g \in Handlers : g < h => handler[g].pc # "done"

\* The request model refuses a body with a malformed address (main.py:46-55):
\* FastAPI answers 422 and the endpoint function is not called.
RequestRefused(h) ==
    /\ FreeThread(h)
    /\ \E route \in RefusedRoutes :
         handler' = [handler EXCEPT ![h] = Response(route, 422, "", 0, 0, 0)]
    /\ UNCHANGED <<queue, msg, backend, nextId, worker, log>>

\* main.py:99-103: send_email_endpoint up to the depth read.
SendEmailCheck(h) ==
    /\ FreeThread(h)
    /\ \E l \in AcceptedBodies("send-email"), redis_ok \in RedisOutcomes :
         handler' = [handler EXCEPT ![h] = Checked("send-email", l, redis_ok)]
    /\ UNCHANGED <<queue, msg, backend, nextId, worker, log>>

\* main.py:139-155: send_bulk_emails_endpoint up to the depth read; a list
\* that fails a size check is answered 400 before the depth is read.
SendBulkCheck(h) ==
    /\ FreeThread(h)
    /\ \E l \in AcceptedBodies("send-bulk-emails"), redis_ok \in RedisOutcomes :
         handler' = [handler EXCEPT ![h] =
                       IF BulkSizeError(Len(l))
                       THEN Response("send-bulk-emails", 400, SizeDetail(Len(l)), 0, 0, 0)
                       ELSE Checked("send-bulk-emails", l, redis_ok)]
    /\ UNCHANGED <<queue, msg, backend, nextId, worker, log>>

TaskKind(route) == IF route = "send-email" THEN "single" ELSE "bulk"

\* main.py:105-112 and 157-164: the depth that was read is at or over the
\* endpoint's threshold: 503 with that depth, nothing else happens.
Reject(h) ==
    LET r == handler[h] IN
    /\ r.pc = "checked"
    /\ QueueFull(r.depth, Threshold(r.route))
    /\ handler' = [handler EXCEPT ![h] =
                     Response(r.route, 503, "Email queue is full", 0, r.depth, 0)]
    /\ UNCHANGED <<queue, msg, nextId, backend, worker, log>>

\* An endpoint that enqueues only if the queue is still below the threshold
\* at the moment of the enqueue.
AdmitRechecking(h) ==
    LET r == handler[h] IN
    /\ r.pc = "checked"
    /\ ~QueueFull(r.depth, Threshold(r.route))
    /\ ~QueueFull(Len(queue), Threshold(r.route))
    /\ delay(TaskKind(r.route), r.emails)
    /\ handler' = [handler EXCEPT ![h] =
                     Response(r.route, 200, "PENDING", nextId, 0,
                              IF r.route = "send-email" THEN 0 ELSE Len(r.emails))]
    /\ UNCHANGED <<backend, worker, log>>

\* An endpoint that answers only once some worker is running.
AdmitWaiting(h) ==
    LET r == handler[h] IN
    /\ r.pc = "checked"
    /\ ~QueueFull(r.depth, Threshold(r.route))
    /\ \E w \in Workers : worker[w].pc # "idle"
    /\ delay(TaskKind(r.route), r.emails)
    /\ handler' = [handler EXCEPT ![h] =
                     Response(r.route, 200, "PENDING", nextId, 0,
                              IF r.route = "send-email" THEN 0 ELSE Len(r.emails))]
    /\ UNCHANGED <<backend, worker, log>>

\* main.py:114-129 and 166-183: delay() and the 200 answer with the new
\* task's id and status PENDING.
Admit(h) ==
    LET r == handler[h] IN
    /\ r.pc = "checked"
    /\ ~QueueFull(r.depth, Threshold(r.route))
    /\ delay(TaskKind(r.route), r.emails)
    /\ handler' = [handler EXCEPT ![h] =
                     Response(r.route, 200, "PENDING", nextId, 0,
                              IF r.route = "send-email" THEN 0 ELSE Len(r.emails))]
    /\ UNCHANGED <<backend, worker, log>>

\* main.py:131-136 and 187-192: delay() raised (the broker cannot be
\* reached): 500, nothing was enqueued.
BrokerError(h) ==
    LET r == handler[h] IN
    /\ r.pc = "checked"
    /\ ~QueueFull(r.depth, Threshold(r.route))
    /\ handler' = [handler EXCEPT ![h] =
                     Response(r.route, 500, "Failed to start", 0, 0, 0)]
    /\ UNCHANGED <<queue, msg, nextId, backend, worker, log>>

WorkerStep(w) ==
    \/ Pickup(w)
    \/ SingleBegin(w)
    \/ SingleAdvance(w)
    \/ SingleFinish(w)
    \/ BulkBegin(w)
    \/ BulkIterate(w)
    \/ BulkFinish(w)

NextTasks ==
    \/ Publish
    \/ \E w \in Workers : WorkerStep(w)
    \/ \E t \in TaskIds : Expire(t)

\* The worker side: producers publish tasks with any arguments, the pool
\* executes them, records expire.
SpecTasks == Init /\ [][NextTasks]_vars

\* The pool runs every slot that has something to do: a free slot takes a
\* waiting message, a busy slot takes the next step of its task body (the
\* waits are finite, the transport returns or raises).
SpecTasksFair == SpecTasks /\ \A w \in Workers : WF_vars(WorkerStep(w))

\* tasks.py:28-39 called on its own: update_progress for any task and any
\* counter 0 <= current <= total.
Progress(t) ==
    /\ \E total \in 0..MaxTotal : \E current \in 0..total :
         update_progress(t, current, total, <<"Processing">>)
    /\ UNCHANGED <<queue, msg, nextId, worker, log, handler>>

NextProgress == \E t \in TaskIds : Progress(t)

SpecProgress == Init /\ [][NextProgress]_vars

HandlerStep(h) ==
    \/ RequestRefused(h)
    \/ SendEmailCheck(h)
    \/ SendBulkCheck(h)
    \/ Reject(h)
    \/ Admit(h)
    \/ BrokerError(h)

NextApi ==
    \/ \E h \in Handlers : HandlerStep(h)
    \/ \E w \in Workers : Pickup(w)

\* The submission side: the HTTP threads, the broker list, and the pool
\* taking messages off it.
SpecApi == Init /\ [][NextApi]_vars

(* ======================= submission-side claims ======================== *)

Routes == {"send-email", "send-bulk-emails"}

OverThreshold(r) ==
    \/ r.route = "send-email" /\ r.depth >= MAX_QUEUE_LENGTH_SINGLE
    \/ r.route = "send-bulk-emails" /\ r.depth >= MAX_QUEUE_LENGTH_BULK

NothingSubmitted == UNCHANGED <<queue, msg, nextId, backend>>

\* C1: a submission that read a depth at or over its endpoint's threshold
\* (single for /send-email, bulk for /send-bulk-emails) is answered 503
\* with exactly the depth it read, and its answer leaves the queue, the
\* minted identifiers and the backend as they were.
C1_RejectedAtThreshold ==
    [][\A h \in Handlers :
         (handler[h].pc = "checked" /\ handler'[h] # handler[h] /\ OverThreshold(handler[h]))
         => /\ handler'[h].pc = "done"
            /\ handler'[h].code = 503
            /\ handler'[h].route = handler[h].route
            /\ handler'[h].queue_length = handler[h].depth
            /\ handler'[h].task_id = 0
            /\ NothingSubmitted]_vars

\* Both kinds were rejected, each at its own threshold.
C1_Witness ==
    \E h1, h2 \in Handlers :
       /\ handler[h1].pc = "done" /\ handler[h1].code = 503
       /\ handler[h1].route = "send-email"
       /\ handler[h1].queue_length >= MAX_QUEUE_LENGTH_SINGLE
       /\ handler[h2].pc = "done" /\ handler[h2].code = 503
       /\ handler[h2].route = "send-bulk-emails"
       /\ handler[h2].queue_length = MAX_QUEUE_LENGTH_BULK

PendingOnly(t) == get_task_status(t) = [task_id |-> t, status |-> "PENDING"]

Admissible(r) == r.pc = "checked" /\ ~OverThreshold(r) /\ nextId <= MaxTasks

\* C9: an admitted submission is answered 200 with the new task's id and
\* status PENDING in one step of its own thread, whatever the workers are
\* doing (the step is enabled as soon as the depth was read below the
\* threshold); and until a worker takes the task off the queue the status
\* query reports it PENDING with no meta, result or error.
C9_AnswerBeforeAnyWorkerStep ==
    /\ \A h \in Handlers : Admissible(handler[h]) => ENABLED Admit(h)
    /\ \A h \in Handlers :
         (handler[h].pc = "done" /\ handler[h].code = 200)
         => /\ handler[h].detail = "PENDING"
            /\ handler[h].task_id \in 1..(nextId - 1)
    /\ \A k \in DOMAIN queue : PendingOnly(queue[k])

\* A submission was answered while no worker had taken any step.
C9_Witness ==
    \E h \in Handlers :
       /\ handler[h].pc = "done" /\ handler[h].code = 200
       /\ \E k \in DOMAIN queue : queue[k] = handler[h].task_id
       /\ \A w \in Workers : worker[w].pc = "idle"
       /\ \A t \in TaskIds : backend[t] = Absent
       /\ PendingOnly(handler[h].task_id)

WrongSize(l) == Len(l) = 0 \/ Len(l) > MAX_BULK_EMAILS

\* C10: a bulk submission whose list is empty or longer than the maximum
\* never gets as far as the depth read or the queue: it is answered 400,
\* and that answer changes neither the queue, the minted identifiers nor
\* the backend, whatever the queue depth is.
C10_SizeCheckedFirst ==
    [][/\ \A h \in Handlers :
            (handler'[h].pc = "checked" /\ handler'[h].route = "send-bulk-emails")
            => ~WrongSize(handler'[h].emails)
       /\ \A t \in TaskIds : msg'[t].kind = "bulk" => ~WrongSize(msg'[t].emails)
       /\ \A h \in Handlers :
            (handler'[h] # handler[h] /\ handler'[h].pc = "done" /\ handler'[h].code = 400)
            => /\ handler[h].pc = "done"
               /\ handler'[h].route = "send-bulk-emails"
               /\ NothingSubmitted]_vars

\* Both size errors were answered while the queue was at or over the bulk
\* threshold.
C10_Witness ==
    /\ Len(queue) >= MAX_QUEUE_LENGTH_BULK
    /\ \E h1, h2 \in Handlers :
         /\ handler[h1].pc = "done" /\ handler[h1].code = 400
         /\ handler[h1].detail = "Email list cannot be empty"
         /\ handler[h2].pc = "done" /\ handler[h2].code = 400
         /\ handler[h2].detail = "Cannot send more than MAX_BULK_EMAILS"

(* ========================= worker-side claims ========================== *)

HasAt(e) == \E k \in DOMAIN e : e[k] = "@"

IsBulkResult(res) == "summary" \in DOMAIN res

Completed(t) == backend[t].status = "SUCCESS"
Failed(t) == backend[t].status = "FAILURE"

CompletedBulk(t) == Completed(t) /\ IsBulkResult(backend[t].result)

\* The log of a task tells its kind: a single task's log starts with the
\* write of step 1, a bulk task's log with a progress write (or is empty
\* when the first progress write raised).
SingleLog(t) == log[t] # <<>> /\ log[t][1].ev = "write"
BulkLog(t) == log[t] = <<>> \/ log[t][1].ev = "progress"

Occurrences(entries, e) == Cardinality({k \in DOMAIN entries : entries[k].email = e})
InputOccurrences(l, n, e) == Cardinality({k \in 1..n : l[k] = e})

\* C2: at every point of the bulk loop, and so at completion, the sent and
\* failed lists together hold one entry per recipient handled: their
\* lengths add up to the number handled and every address is entered as
\* often as it was handed in; the counts of a completed task's result add
\* up to total_emails.
C2_BulkListsPartitionInput ==
    /\ \A w \in Workers :
         worker[w].pc = "bulk"
         => /\ Len(worker[w].sent) + Len(worker[w].failed) = worker[w].i
            /\ \A e \in Addrs :
                 Occurrences(worker[w].sent, e) + Occurrences(worker[w].failed, e)
                   = InputOccurrences(worker[w].emails, worker[w].i, e)
    /\ \A t \in TaskIds :
         CompletedBulk(t)
         => LET sum == backend[t].result.summary IN
            /\ sum.sent_count = Len(backend[t].result.sent_emails)
            /\ sum.failed_count = Len(backend[t].result.failed_emails)
            /\ sum.sent_count + sum.failed_count = sum.total_emails

CanonicalLog ==
    <<[ev |-> "write", step |-> 1, state |-> "PROCESSING"], [ev |-> "work", step |-> 1],
      [ev |-> "write", step |-> 2, state |-> "PROCESSING"], [ev |-> "work", step |-> 2],
      [ev |-> "write", step |-> 3, state |-> "CONNECTING"], [ev |-> "work", step |-> 3],
      [ev |-> "write", step |-> 4, state |-> "SENDING"], [ev |-> "work", step |-> 4],
      [ev |-> "write", step |-> 5, state |-> "FINALIZING"], [ev |-> "work", step |-> 5]>>

StepLabels == <<"1/5", "2/5", "3/5", "4/5", "5/5">>

StepStates == {"PROCESSING", "CONNECTING", "SENDING", "FINALIZING"}

\* C3: the events of a single-email execution are a prefix of: write 1
\* (PROCESSING), work 1, write 2 (PROCESSING), work 2, write 3
\* (CONNECTING), work 3, write 4 (SENDING), work 4, write 5 (FINALIZING),
\* work 5; the record in the backend is the last write of that prefix; a
\* running task has written exactly the steps up to the one it is in; and
\* a completed task has written and worked all five.
C3_StepsInOrder ==
    /\ \A t \in TaskIds :
         SingleLog(t)
         => /\ Len(log[t]) <= Len(CanonicalLog)
            /\ \A j \in DOMAIN log[t] : log[t][j] = CanonicalLog[j]
            /\ Completed(t) => Len(log[t]) = Len(CanonicalLog)
    /\ \A w \in Workers :
         worker[w].pc = "single"
         => LET t == worker[w].task
                k == worker[w].i
            IN
            /\ SingleLog(t)
            /\ Len(log[t]) = 2 * k - 1
            /\ backend[t].status = CanonicalLog[2 * k - 1].state
            /\ backend[t].result.step = StepLabels[k]
    /\ \A t \in TaskIds :
         backend[t].status \in StepStates
         => \E w \in Workers : worker[w].pc = "single" /\ worker[w].task = t

\* A single-email task ran all five steps and completed.
C3_Witness ==
    \E t \in TaskIds :
       /\ Completed(t)
       /\ ~IsBulkResult(backend[t].result)
       /\ log[t] = CanonicalLog

InFlight(t) == backend[t].status \in StepStates \cup {"PROGRESS"}

\* C4: whenever the stored state of a task is one of the in-flight states,
\* the status query's response carries the stored progress block.
C4_ProgressExposed ==
    \A t \in TaskIds :
       InFlight(t)
       => /\ "meta" \in Keys(get_task_status(t))
          /\ get_task_status(t).meta = backend[t].result

Running(t) == \E w \in Workers : worker[w].pc # "idle" /\ worker[w].task = t
Queued(t) == \E k \in DOMAIN queue : queue[k] = t

NeverIssued(t) == t >= nextId
Expired(t) == t < nextId /\ ~Queued(t) /\ ~Running(t) /\ backend[t] = Absent

\* C5: the status query for an identifier that was never issued, or whose
\* record has expired, answers something else than the PENDING response an
\* existing task that waits in the queue gets.
C5_NotFoundDistinct ==
    \A t \in TaskIds :
       (NeverIssued(t) \/ Expired(t))
       => get_task_status(t) # [task_id |-> t, status |-> "PENDING"]

\* C6: in the status query's response result and error are never both
\* present, neither is present before the task is terminal, result is
\* present exactly when the reported status is COMPLETED and error exactly
\* when it is FAILED; a completed task reports COMPLETED, a failed one
\* FAILED.
C6_ResultXorError ==
    \A t \in TaskIds :
       LET r == get_task_status(t) IN
       /\ ~("result" \in Keys(r) /\ "error" \in Keys(r))
       /\ ~Terminal(t) => ("result" \notin Keys(r) /\ "error" \notin Keys(r))
       /\ "result" \in Keys(r) <=> r.status = "COMPLETED"
       /\ "error" \in Keys(r) <=> r.status = "FAILED"
       /\ Completed(t) <=> r.status = "COMPLETED"
       /\ Failed(t) <=> r.status = "FAILED"

\* One task is reported COMPLETED with its result, another FAILED with its
\* error.
C6_Witness ==
    \E t1, t2 \in TaskIds :
       /\ get_task_status(t1).status = "COMPLETED"
       /\ "result" \in Keys(get_task_status(t1))
       /\ get_task_status(t2).status = "FAILED"
       /\ "error" \in Keys(get_task_status(t2))

\* C7: a bulk task fails only by a fault outside the handling of the
\* recipients (a progress write that raises).  Whatever a recipient's
\* outcome, the step that handles it moves on to the next recipient; the
\* task returns only after the last recipient; and the returned result is
\* COMPLETED with the failed list the loop built.
C7_RecipientFailuresDoNotFailTask ==
    [][/\ \A t \in TaskIds :
            (Failed(t)' /\ BulkLog(t)') => backend'[t].result.exc = "BackendError"
       /\ \A w \in Workers, t \in TaskIds :
            (worker[w].pc = "bulk" /\ worker[w].task = t /\ worker'[w] # worker[w])
            => \/ /\ worker'[w].pc = "bulk"
                  /\ worker'[w].task = t
                  /\ worker'[w].i = worker[w].i + 1
                  /\ Len(worker'[w].sent) + Len(worker'[w].failed)
                       > Len(worker[w].sent) + Len(worker[w].failed)
                  /\ backend'[t].status = "PROGRESS"
               \/ /\ worker'[w].pc = "idle"
                  /\ worker[w].i = Len(worker[w].emails)
                  /\ backend'[t].status = "SUCCESS"
                  /\ backend'[t].result.status = "COMPLETED"
                  /\ backend'[t].result.failed_emails = worker[w].failed
                  /\ backend'[t].result.sent_emails = worker[w].sent
               \/ /\ worker'[w].pc = "idle"
                  /\ backend'[t].status = "FAILURE"
                  /\ backend'[t].result.exc = "BackendError"]_vars

\* A bulk task completed although both of its recipients failed, one on
\* the format check and one by an error the transport raised.
C7_Witness ==
    \E t \in TaskIds :
       /\ CompletedBulk(t)
       /\ backend[t].result.summary.total_emails = 2
       /\ backend[t].result.summary.sent_count = 0
       /\ \E j, k \in DOMAIN backend[t].result.failed_emails :
            /\ backend[t].result.failed_emails[j].reason = "Invalid email format"
            /\ backend[t].result.failed_emails[k].reason = "TransportError"

FirstStepOnly == <<[ev |-> "write", step |-> 1, state |-> "PROCESSING"]>>

\* C8: a single-email task whose address has no "@" writes step 1 and
\* nothing after it: its next step stores FAILURE (with "Invalid email
\* address", or with the error that interrupted the wait of step 1); a task
\* that failed with "Invalid email address" logged the write and the work
\* of step 1 only, so no later write and no transport call, and the status
\* query reports it FAILED with that error and no result.
C8_InvalidAddressFailsAtStepOne ==
    [][/\ \A w \in Workers, t \in TaskIds :
            (worker[w].pc = "single" /\ worker[w].task = t /\ ~HasAt(worker[w].emails[1]))
            => /\ worker[w].i = 1
               /\ log[t] = FirstStepOnly
               /\ worker'[w] # worker[w]
                  => /\ worker'[w].pc = "idle"
                     /\ backend'[t].status = "FAILURE"
                     /\ backend'[t].result.exc
                          \in {"Invalid email address", "SoftTimeLimitExceeded"}
       /\ \A t \in TaskIds :
            (Failed(t)' /\ backend'[t].result.exc = "Invalid email address")
            => /\ log'[t] = FirstStepOnly \o <<[ev |-> "work", step |-> 1]>>
               /\ get_task_status(t)' =
                    [task_id |-> t, status |-> "FAILED", error |-> "Invalid email address"]]_vars

\* A single-email task failed on the format check of step 1.
C8_Witness ==
    \E t \in TaskIds :
       /\ Failed(t)
       /\ backend[t].result.exc = "Invalid email address"
       /\ SingleLog(t)

(* ===================== claims on validation and depth =================== *)

MixedList == <<GoodAddr, NoAtAddr>>

\* C11: with the queue below the bulk threshold, the bulk endpoint takes
\* the list of one well-formed address and one address without "@" into
\* its function body (from where it is enqueued as a task that ends with
\* sent_count 1 and failed_count 1).
C11_MixedListReachesTask ==
    \A h \in Handlers :
       (FreeThread(h) /\ Len(queue) < MAX_QUEUE_LENGTH_BULK)
       => ENABLED (/\ SendBulkCheck(h)
                   /\ handler'[h] = Checked("send-bulk-emails", MixedList, TRUE))

\* C12: a depth query that fails is read as depth 0: /queue-status then
\* reports queue_length 0 and "healthy", and a submission of either kind
\* that read the depth while the query failed is never answered 503: its
\* thread's next step is the 200 answer with the task appended to the
\* queue, or the 500 of a failed enqueue.
C12_DepthFailureReadsZero ==
    [][/\ get_queue_status(FALSE) = [queue_length |-> 0, status |-> "healthy"]
       /\ \A h \in Handlers :
            (handler'[h].pc = "checked" /\ ~handler'[h].redis_ok)
            => handler'[h].depth = 0
       /\ \A h \in Handlers :
            (handler[h].pc = "checked" /\ ~handler[h].redis_ok /\ handler'[h] # handler[h])
            => /\ handler'[h].pc = "done"
               /\ handler'[h].code \in {200, 500}
               /\ handler'[h].code = 200
                  => queue' = Append(queue, handler'[h].task_id)]_vars

\* Submissions of both kinds read depth 0 from a failing query while the
\* queue held at least as many tasks as their thresholds.
C12_Witness ==
    \E h1, h2 \in Handlers :
       /\ handler[h1].pc = "checked" /\ ~handler[h1].redis_ok
       /\ handler[h1].route = "send-email"
       /\ handler[h2].pc = "checked" /\ ~handler[h2].redis_ok
       /\ handler[h2].route = "send-bulk-emails"
       /\ handler[h1].depth = 0 /\ handler[h2].depth = 0
       /\ Len(queue) >= MAX_QUEUE_LENGTH_SINGLE
       /\ Len(queue) >= MAX_QUEUE_LENGTH_BULK

(* ========================= claims on the lifecycle ====================== *)

\* C13: once the stored state of a task is SUCCESS or FAILURE, every step
\* of the system (the steps of its own and of the other worker slots, new
\* messages, pickups) leaves its record, and so the response of the status
\* query, as it is; the only change is the removal of the record on expiry.
\* The task is neither queued nor running again.
C13_TerminalAbsorbing ==
    [][\A t \in TaskIds :
         backend[t].status \in {"SUCCESS", "FAILURE"}
         => /\ backend'[t] = backend[t] \/ backend'[t] = Absent
            /\ backend'[t] = backend[t] => get_task_status(t)' = get_task_status(t)
            /\ \A k \in DOMAIN queue' : queue'[k] # t
            /\ \A w \in Workers : worker'[w].task # t]_vars

\* One task is terminal while a worker slot is in the middle of another.
C13_Witness ==
    \E t \in TaskIds, w \in Workers :
       /\ backend[t].status \in {"SUCCESS", "FAILURE"}
       /\ worker[w].pc \in {"single", "bulk"}
       /\ worker[w].task # t
       /\ worker[w].i >= 1
       /\ backend[worker[w].task].status \notin {"SUCCESS", "FAILURE", "PENDING"}

\* The labels of the documented lifecycle as the service spells them:
\* Pending, Processing with a step (PROCESSING) or with a counter
\* (PROGRESS), Connecting, Sending, Finalizing, Completed, Failed.
DocumentedLabels ==
    {"PENDING", "PROCESSING", "PROGRESS", "CONNECTING", "SENDING", "FINALIZING",
     "COMPLETED", "FAILED"}

\* C14 as stated: the status reported for a task is always one of the
\* documented labels.
C14_DocumentedLabelsOnly ==
    \A t \in TaskIds : get_task_status(t).status \in DocumentedLabels

\* C14 as amended: the status reported for a task is one of the documented
\* labels or STARTED; STARTED is reported exactly from the pickup of the
\* task by a worker slot to the first progress write of its body.
C14_LabelsWithStarted ==
    \A t \in TaskIds :
       /\ get_task_status(t).status \in DocumentedLabels \cup {"STARTED"}
       /\ get_task_status(t).status = "STARTED"
          <=> \E w \in Workers : worker[w].pc = "body" /\ worker[w].task = t

\* A picked-up task is reported STARTED while another is reported with a
\* documented in-flight label.
C14_Witness ==
    \E t1, t2 \in TaskIds :
       /\ get_task_status(t1).status = "STARTED"
       /\ get_task_status(t2).status \in {"PROCESSING", "PROGRESS"}

(* ========================= claims on the progress ======================= *)

\* Python's round() of the quotient n/d: to the nearest integer, a half to
\* the even neighbour.
RoundQuotient(n, d) ==
    LET q == n \div d
        r == n % d
    IN  IF 2 * r > d THEN q + 1
        ELSE IF 2 * r < d THEN q
        ELSE IF q % 2 = 0 THEN q ELSE q + 1

\* C15: every progress record published with 0 <= current <= total carries
\* the percent round(current/total*100) when total > 0 and 0 when total is
\* 0, and the percent lies in 0..100.
C15_PercentIsRounded ==
    \A t \in TaskIds :
       backend[t].status = "PROGRESS"
       => LET r == backend[t].result IN
          /\ r.progress \in 0..100
          /\ r.total = 0 => r.progress = 0
          /\ r.total > 0 => r.progress = RoundQuotient(100 * r.current, r.total)

\* The events of a bulk execution over n recipients: the write (0, n), then
\* for each recipient in input order the write (i, n) and its handling.
CanonicalBulkLog(n) ==
    [j \in 1..(2 * n + 1) |->
       IF j = 1 THEN [ev |-> "progress", current |-> 0, total |-> n]
       ELSE IF j % 2 = 0 THEN [ev |-> "progress", current |-> j \div 2, total |-> n]
       ELSE [ev |-> "handle", idx |-> (j - 1) \div 2]]

IsPrefix(s, full) == Len(s) <= Len(full) /\ \A j \in DOMAIN s : s[j] = full[j]

EntriesFor(entries, e) == \A k \in DOMAIN entries : entries[k].email = e

\* C16: a bulk task over n recipients writes (0, n) first and then, for
\* each recipient in input order, (i, n) before that recipient is handled:
\* a running task that has handled i recipients has logged exactly the
\* first 2i+1 of these events and its record shows current = i, total = n;
\* a step moves current from i to i+1 and never back, and what it adds to
\* the sent and failed lists is about recipient i+1 of the input; a
\* completed task has logged all of them.
C16_ProgressCountsUp ==
    [][/\ \A w \in Workers, t \in TaskIds :
            (worker'[w].pc = "bulk" /\ worker'[w].task = t)
            => LET n == Len(worker'[w].emails)
                   i == worker'[w].i
               IN
               /\ i \in 0..n
               /\ log'[t] = SubSeq(CanonicalBulkLog(n), 1, 2 * i + 1)
               /\ backend'[t].status = "PROGRESS"
               /\ backend'[t].result.current = i
               /\ backend'[t].result.total = n
       /\ \A w \in Workers :
            (worker[w].pc = "bulk" /\ worker'[w].pc = "bulk" /\ worker'[w] # worker[w])
            => /\ worker'[w].i = worker[w].i + 1
               /\ worker'[w].emails = worker[w].emails
               /\ IsPrefix(worker[w].sent, worker'[w].sent)
               /\ IsPrefix(worker[w].failed, worker'[w].failed)
               /\ EntriesFor(SubSeq(worker'[w].sent, Len(worker[w].sent) + 1,
                                    Len(worker'[w].sent)),
                             worker[w].emails[worker'[w].i])
               /\ EntriesFor(SubSeq(worker'[w].failed, Len(worker[w].failed) + 1,
                                    Len(worker'[w].failed)),
                             worker[w].emails[worker'[w].i])
       /\ \A t \in TaskIds :
            (backend[t].status = "PROGRESS" /\ backend'[t].status = "PROGRESS")
            => /\ backend'[t].result.current >= backend[t].result.current
               /\ backend'[t].result.total = backend[t].result.total
       /\ \A t \in TaskIds :
            (backend'[t].status = "SUCCESS" /\ "summary" \in DOMAIN backend'[t].result)
            => log'[t] = CanonicalBulkLog(backend'[t].result.summary.total_emails)]_vars

\* A bulk task over two recipients completed after the writes (0, 2),
\* (1, 2), (2, 2).
C16_Witness ==
    \E t \in TaskIds :
       /\ backend[t].status = "SUCCESS"
       /\ "summary" \in DOMAIN backend[t].result
       /\ backend[t].result.summary.total_emails = 2
       /\ Len(log[t]) = 5
       /\ log[t][1] = [ev |-> "progress", current |-> 0, total |-> 2]
       /\ log[t][2] = [ev |-> "progress", current |-> 1, total |-> 2]
       /\ log[t][4] = [ev |-> "progress", current |-> 2, total |-> 2]

TransportCalls(t) ==
    Cardinality({j \in DOMAIN log[t] : log[t][j] = [ev |-> "work", step |-> 4]})

LateErrors(k) ==
    IF k = 4 THEN {"Unexpected email sending failure", "TransportError"}
    ELSE {"SoftTimeLimitExceeded"}

\* C17: when the work of step k (2..5) of a single-email task fails (the
\* transport of step 4 returns failure or raises, a wait is interrupted),
\* that step stores FAILURE with the error's message and frees the slot:
\* the log ends with the write and the work of step k, so no later step is
\* written, the status query reports FAILED with the message and no
\* result, the task is not put back on the queue, and in no execution is
\* the transport called more than once.
C17_LateFailureFailsOnce ==
    [][/\ \A w \in Workers, t \in TaskIds :
            (/\ worker[w].pc = "single" /\ worker[w].task = t
             /\ worker[w].i >= 2 /\ backend'[t].status = "FAILURE")
            => /\ worker'[w].pc = "idle"
               /\ log'[t] = SubSeq(CanonicalLog, 1, 2 * worker[w].i)
               /\ backend'[t].result.exc \in LateErrors(worker[w].i)
               /\ get_task_status(t)' =
                    [task_id |-> t, status |-> "FAILED", error |-> backend'[t].result.exc]
               /\ \A k \in DOMAIN queue' : queue'[k] # t
               /\ \A v \in Workers : worker'[v].task # t
       /\ \A t \in TaskIds : TransportCalls(t)' <= 1
       /\ \A w \in Workers :
            (worker[w].pc = "single" /\ worker[w].i >= 2 /\ worker'[w] # worker[w])
            => \/ worker'[w].pc = "idle"
               \/ worker'[w] = [worker[w] EXCEPT !.i = worker[w].i + 1]]_vars

\* One task failed when the transport reported failure, another when the
\* wait of step 2 was interrupted.
C17_Witness ==
    \E t1, t2 \in TaskIds :
       /\ backend[t1].status = "FAILURE"
       /\ backend[t1].result.exc = "Unexpected email sending failure"
       /\ TransportCalls(t1) = 1
       /\ Len(log[t1]) = 8
       /\ backend[t2].status = "FAILURE"
       /\ backend[t2].result.exc = "SoftTimeLimitExceeded"
       /\ Len(log[t2]) = 4
       /\ TransportCalls(t2) = 0

(* ========================= claims on concurrency ======================== *)

\* C18: the depth read and the enqueue are separate steps.  The depth a
\* submission holds is the length the queue had when it was read (0 when
\* the query failed); a submission that holds a depth below its threshold
\* can be admitted whatever the queue has grown to since; and every 200
\* answer follows a read below the threshold and appends its task to the
\* queue as it is at that moment.
C18_StaleDepthAdmits ==
    [][/\ \A h \in Handlers :
            (handler[h].pc = "done" /\ handler'[h].pc = "checked")
            => handler'[h].depth = (IF handler'[h].redis_ok THEN Len(queue) ELSE 0)
       /\ \A h \in Handlers :
            (/\ handler[h].pc = "checked" /\ nextId <= MaxTasks
             /\ \/ handler[h].route = "send-email"
                   /\ handler[h].depth < MAX_QUEUE_LENGTH_SINGLE
                \/ handler[h].route = "send-bulk-emails"
                   /\ handler[h].depth < MAX_QUEUE_LENGTH_BULK)
            => ENABLED Admit(h)
       /\ \A h \in Handlers :
            (handler[h].pc = "checked" /\ handler'[h].pc = "done" /\ handler'[h].code = 200)
            => /\ ~OverThreshold(handler[h])
               /\ queue' = Append(queue, handler'[h].task_id)]_vars

\* Two bulk submissions were both admitted, so that the queue holds more
\* tasks than the bulk threshold.
C18_Witness ==
    \E h1, h2 \in Handlers :
       /\ h1 # h2
       /\ handler[h1].pc = "done" /\ handler[h1].code = 200
       /\ handler[h1].route = "send-bulk-emails"
       /\ handler[h2].pc = "done" /\ handler[h2].code = 200
       /\ handler[h2].route = "send-bulk-emails"
       /\ queue = <<handler[h1].task_id, handler[h2].task_id>>
       /\ Len(queue) > MAX_QUEUE_LENGTH_BULK

Holds(w, t) == worker[w].pc # "idle" /\ worker[w].task = t

Starts(t) ==
    Cardinality({j \in DOMAIN log[t] :
                   \/ log[t][j] = [ev |-> "write", step |-> 1, state |-> "PROCESSING"]
                   \/ /\ log[t][j].ev = "progress"
                      /\ log[t][j].current = 0
                      /\ j = 1})

\* C19: a task is at any time in at most one place: once on the queue, or
\* in one worker slot, never both and never in two slots; its body starts
\* at most once.  A step that takes a task off the queue gives it to one
\* idle slot; a step that changes a task's record or log (expiry aside) is
\* a step of the one slot that holds the task, and it changes no other
\* slot and no other task's record; a busy slot keeps its task until it
\* frees itself.
C19_OneSlotPerTask ==
    [][/\ \A t \in TaskIds :
            /\ Cardinality({w \in Workers : Holds(w, t)'}) <= 1
            /\ Cardinality({k \in DOMAIN queue' : queue'[k] = t}) <= 1
            /\ (\E w \in Workers : Holds(w, t)') => \A k \in DOMAIN queue' : queue'[k] # t
            /\ Starts(t)' <= 1
       /\ \A w \in Workers, t \in TaskIds :
            (~Holds(w, t) /\ Holds(w, t)')
            => /\ worker[w].pc = "idle"
               /\ queue # <<>> /\ queue[1] = t
               /\ queue' = Tail(queue)
       /\ \A t \in TaskIds :
            (\/ backend'[t] # backend[t] /\ backend'[t] # Absent
             \/ log'[t] # log[t] /\ log'[t] # <<>>)
            => \E w \in Workers :
                 /\ Holds(w, t) \/ Holds(w, t)'
                 /\ worker'[w] # worker[w]
                 /\ \A v \in Workers \ {w} : worker'[v] = worker[v]
                 /\ \A u \in TaskIds \ {t} : backend'[u] = backend[u] /\ log'[u] = log[u]
       /\ \A w \in Workers :
            worker[w].pc # "idle"
            => worker'[w].pc = "idle" \/ worker'[w].task = worker[w].task]_vars

\* Both worker slots are busy, each in the middle of a different task.
C19_Witness ==
    \E w1, w2 \in Workers, t1, t2 \in TaskIds :
       /\ w1 # w2 /\ t1 # t2
       /\ Holds(w1, t1) /\ Holds(w2, t2)
       /\ worker[w1].pc \in {"single", "bulk"}
       /\ worker[w2].pc \in {"single", "bulk"}
       /\ log[t1] # <<>> /\ log[t2] # <<>>

(* ========================= claims on termination ======================== *)

\* C20: when every worker slot that can take a step eventually takes one,
\* every task that is on the queue or in a worker slot eventually has a
\* terminal record (SUCCESS or FAILURE); and no step puts a task on the
\* queue other than the step that mints its identifier, or gives a slot a
\* task whose body has already started.
C20_EveryTaskTerminates ==
    /\ \A t \in TaskIds :
         (Queued(t) \/ Running(t)) ~> (backend[t].status \in {"SUCCESS", "FAILURE"})
    /\ [][\A t \in TaskIds :
            /\ (Queued(t)' /\ ~Queued(t)) => (t = nextId /\ nextId' = nextId + 1)
            /\ (Running(t)' /\ ~Running(t)) => (Queued(t) /\ log[t] = <<>>)]_vars

\* A single and a bulk task have both reached a terminal record.
C20_Witness ==
    \E t1, t2 \in TaskIds :
       /\ backend[t1].status \in {"SUCCESS", "FAILURE"}
       /\ backend[t2].status = "SUCCESS"
       /\ SingleLog(t1)
       /\ "summary" \in DOMAIN backend[t2].result
       /\ backend[t2].result.summary.total_emails = MAX_BULK_EMAILS

====
